---- MODULE Spec2Model ----
(***************************************************************************)
(* Model of the pi-run-dashboard backend (backend/src/index.ts and         *)
(* backend/src/stravaTokens.ts).                                           *)
(*                                                                         *)
(*  Spec          the credential store, getValidAccessToken and the two    *)
(*                token-using routes (/api/dashboard, /api/last-activity)  *)
(*                as interleaved asynchronous handlers of one Node process *)
(*  SpecStartOfWeek   getStartOfWeek over instants and local time zones    *)
(*  SpecWeekly        getWeeklySummary over activity lists                 *)
(*  SpecWeather       getWeather's grouping over forecast sample lists     *)
(***************************************************************************)
EXTENDS Integers, Sequences, FiniteSets, TLC

----------------------------------------------------------------------------
(* Bounds of the model *)

\* the wall clock advances at most this many times in a behaviour
MaxTicks == 1

\* getStartOfWeek is applied to the instants of this many consecutive days
MaxDays == 8

\* upstream returns at most this many activities to getWeeklySummary
MaxActs == 2

\* forecast answers: at most MaxFree samples of any date, in any order,
\* then samples of further dates, up to MaxSamples samples in all
MaxFree == 2
MaxSamples == 9

\* most samples of a forecast answer with free labels
MaxLabelled == 3

\* most points of a route
MaxPoints == 3

(* Program constants *)

\* index.ts:55  tokens.expires_at <= now + 60
SafetyMargin == 60

\* the request slots of the process (overlapping HTTP requests)
Reqs == {"q1", "q2"}

\* the three concurrent calls of the dashboard fan-out, index.ts:369-373
TaskNames == {"recent", "weekly", "weather"}

\* wall-clock steps (seconds): a whole safety margin
TickSteps == {SafetyMargin}

\* the routes a request slot can be a request of (q2 is kept to the route
\* with a single data call)
RoutesOf == [q1 |-> {"dashboard", "last-activity"}, q2 |-> {"last-activity"}]

\* what the upstream token endpoint can answer: every exchange mints its own
\* access token, and either hands back the refresh token it was sent or
\* rotates it
MintedAccess  == [q1 |-> "a1", q2 |-> "a2"]
MintedRefresh == [q1 |-> "r1", q2 |-> "r2"]
\* expires_at - (time of the answer): on the margin, or Strava's 6 h
ExpiresIn == {SafetyMargin, 21600}
\* HTTP outcomes of the token endpoint; 0 stands for a transport error
\* (fetch rejects), index.ts:35
RefreshOutcomes == {200, 401, 0}

Undefined == "undefined"

\* T | null as a sequence of length <= 1
Null == <<>>
Some(x) == <<x>>
IsNull(o) == o = <<>>
Val(o) == o[1]

----------------------------------------------------------------------------
VARIABLES
  now,          \* wall clock, epoch seconds (Date.now()/1000)
  ticks,        \* number of clock advances so far
  fileExists,   \* fs.existsSync(TOKENS_PATH)
  fileRaw,      \* content of tokens.json: JSON text as a list of members
  weatherCfg,   \* WEATHER_API_KEY && WEATHER_LAT && WEATHER_LON all set
  pc,           \* per request: position of its handler
  route,        \* per request: "dashboard" | "last-activity"
  callNow,      \* per request: `now` of getValidAccessToken, index.ts:52
  tokens,       \* per request: local `tokens` of getValidAccessToken
  sentRefresh,  \* per request: refresh_token of the exchange in flight
  accessToken,  \* per request: value getValidAccessToken resolved with
  task,         \* per request, per task: state of the promise
  allState,     \* per request: state of the Promise.all promise
  responses,    \* per request: the responses written to `res`, in order
  \* ---- history (ghost) variables, read by the properties only
  writes,       \* number of saveTokens calls so far
  hLoadWrites,  \* per request: `writes` when it ran loadTokens
  hLoadFile,    \* per request: the file it found (Null if none)
  hLoadExists,  \* per request: whether tokens.json existed when it loaded
  hLoadWriter,  \* per request: `lastWriter` when it loaded
  hRefreshes,   \* per request: refresh exchanges it sent
  hOutcome,     \* per request: HTTP outcome of its refresh exchange (-1 none)
  hResp,        \* per request: body of the 2xx refresh response (Null none)
  hSaves,       \* per request: saveTokens calls it made
  hError,       \* per request: message getValidAccessToken threw ("" none)
  hFetches,     \* per request: data fetches issued, as [task, bearer]
  hForecast,    \* per request: json.list of its forecast answer (Null none)
  lastWriter,   \* request whose saveTokens wrote the current file ("" none)
  \* ---- the pure computations: their inputs and results
  tz,           \* the host's local time zone: [before, after, switch]
  dateArg,      \* argument of getStartOfWeek: an instant, epoch ms
  weekStart,    \* its result (Null before the call)
  activities,   \* the activities upstream returned to getWeeklySummary
  summary,      \* result of getWeeklySummary (Null before the call)
  list,         \* json.list of the forecast answer given to getWeather
  weatherDone,  \* getWeather has returned
  days,         \* what it returned: Null for null, else Some(array)
  points,       \* a route: coordinates at 1e-5 degree resolution
  encoded,      \* the polyline string given to decodePolyline, as char codes
  path,         \* what decodePolyline returned (Null before the call)
  rawActivity,  \* an activity of the activities answer: distance, moving_time
  mapped        \* what getRecentActivities maps it to (Null before the call)

tokenVars == <<now, ticks, fileExists, fileRaw>>
reqVars == <<pc, route, callNow, tokens, sentRefresh, accessToken, task,
             allState, responses>>
histVars == <<writes, hLoadWrites, hLoadFile, hLoadExists, hLoadWriter, hRefreshes, hOutcome, hResp,
              hSaves, hError, hFetches, hForecast, lastWriter>>
serverVars == <<tokenVars, weatherCfg, reqVars, histVars>>
dateVars == <<tz, dateArg, weekStart>>
weeklyVars == <<activities, summary>>
weatherVars == <<list, weatherDone, days>>
polyVars == <<points, encoded, path>>
paceVars == <<rawActivity, mapped>>
restVars == <<polyVars, paceVars>>
pureVars == <<dateVars, weeklyVars, weatherVars, restVars>>
vars == <<serverVars, pureVars>>

----------------------------------------------------------------------------
(* stravaTokens.ts *)

\* interface StravaTokens
StravaTokens(a, r, e) == [access_token |-> a, refresh_token |-> r, expires_at |-> e]

\* JSON.stringify(tokens, null, 2): the members, in property order
JSONStringify(t) ==
  << <<"access_token", t.access_token>>,
     <<"refresh_token", t.refresh_token>>,
     <<"expires_at", t.expires_at>> >>

\* property read on a parsed object: the last member of that name, or undefined
JSONGet(raw, key) ==
  LET hits == SelectSeq(raw, LAMBDA m : m[1] = key)
  IN IF Len(hits) = 0 THEN Undefined ELSE hits[Len(hits)][2]

\* JSON.parse(raw) as StravaTokens
JSONParse(raw) ==
  StravaTokens(JSONGet(raw, "access_token"), JSONGet(raw, "refresh_token"),
               JSONGet(raw, "expires_at"))

\* saveTokens: the new content of tokens.json
saveTokens(t) == JSONStringify(t)

\* (mutant) an empty pair instead of null when the file does not exist
loadTokensDefault ==
  IF ~fileExists THEN Some(StravaTokens("", "", 0)) ELSE Some(JSONParse(fileRaw))

\* loadTokens: null when the file does not exist
loadTokens == IF ~fileExists THEN Null ELSE Some(JSONParse(fileRaw))

----------------------------------------------------------------------------
(* index.ts: helpers *)

\* (mutant) any status from 200 up taken for success
ResOkFrom200(status) == status >= 200

\* res.ok of node-fetch: a 2xx status
ResOk(status) == status >= 200 /\ status <= 299

\* fetchJson throws: fetch rejected (transport error, 0) or !res.ok
fetchJsonThrows(status) == status = 0 \/ ~ResOk(status)

\* (mutant) the comparison turned round
NeedsRefreshReversed(t, n) == t.expires_at >= n + SafetyMargin

\* index.ts:55  if (tokens.expires_at <= now + 60)
NeedsRefresh(t, n) == t.expires_at <= n + SafetyMargin

\* (mutant) the refresh token copied from the wrong member
TokensFromJsonSlip(json) ==
  StravaTokens(json.access_token, json.access_token, json.expires_at)

\* index.ts:71-75  tokens = { access_token: json.access_token, ... }
TokensFromJson(json) ==
  StravaTokens(json.access_token, json.refresh_token, json.expires_at)

\* the promises a handler awaits after token acquisition:
\* Promise.all of the three calls (index.ts:369), or getLastActivity alone
\* (index.ts:355)
Awaited(rt) == IF rt = "dashboard" THEN TaskNames ELSE {"recent"}

\* (mutant) the token that was loaded, not the one acquisition returned
BearerLoaded(r) == Val(hLoadFile[r]).access_token

\* the bearer token the activity fetches carry, index.ts:94, 154
Bearer(r) == Val(accessToken[r])

\* res.status(500).json({ error: err.message }); the body has no weather
ErrorResponse(msg) ==
  [status |-> 500, sections |-> {}, error |-> msg, weather |-> "none"]

\* res.json({ lastActivity, recentActivities, weeklySummary, weather, race })
\* (or res.json(lastActivity ?? {message}) on /api/last-activity): the
\* sections are the awaited results the body is built from, and weather
\* is what getWeather resolved with ("ok" an array of days, "null" null)
OkResponse(rt, tk) ==
  [status |-> 200, sections |-> Awaited(rt), error |-> "",
   weather |-> IF "weather" \in Awaited(rt) THEN tk["weather"] ELSE "none"]

NoTokens == "No Strava tokens found. Connect Strava first."

----------------------------------------------------------------------------
(* JavaScript Date in the host's local time zone *)

HourMs == 60 * 60 * 1000
\* index.ts:171  1000 * 60 * 60 * 24
DayMs == 1000 * 60 * 60 * 24

\* A time zone whose UTC offset is z.before up to the instant z.switch and
\* z.after from then on (a daylight-saving change; none if both are equal).
LocalTZA(z, t) == IF t < z.switch THEN z.before ELSE z.after

\* LocalTime(t) of ECMAScript: the local clock reading, as ms
LocalTime(z, t) == t + LocalTZA(z, t)

\* UTC(t) of ECMAScript: the instant of a local clock reading.  A reading
\* that occurs twice (clocks set back) is the earlier instant; one that is
\* skipped (clocks set forward) is read with the offset before the change.
UTC(z, local) ==
  LET cands == {u \in {local - z.before, local - z.after} : LocalTime(z, u) = local}
  IN IF cands = {} THEN local - z.before
     ELSE CHOOSE u \in cands : \A v \in cands : u <= v

\* Date.prototype.getDay: 0 = Sunday .. 6 = Saturday; 1970-01-01 was a Thursday
getDay(z, t) == ((LocalTime(z, t) \div DayMs) + 4) % 7

\* Date.prototype.setHours(0, 0, 0, 0): local midnight of the local date
setHoursZero(z, t) == UTC(z, (LocalTime(z, t) \div DayMs) * DayMs)

\* d.setDate(d.getDate() - n): the local date n days back, same local time
setDateBack(z, t, n) == UTC(z, LocalTime(z, t) - n * DayMs)

\* (mutant) the days since Sunday
DaysSinceSunday(day) == day

\* index.ts:134  const diff = (day + 6) % 7
DaysSinceMonday(day) == (day + 6) % 7

\* index.ts:130-138
getStartOfWeek(z, date) ==
  LET day == getDay(z, date)
      diff == DaysSinceMonday(day)
  IN setDateBack(z, setHoursZero(z, date), diff)

\* the time zones of the model: a base offset, and a change of an hour
\* either way at 00:00 or at 02:00 local time of some day, or no change
TimeZones ==
  LET zone(b, a, d, h) ==
        [before |-> b, after |-> a, switch |-> d * DayMs + h * HourMs - b]
  IN {zone(b, b, 0, 0) : b \in {-5 * HourMs, HourMs}}
     \cup {zone(b, b + sh, d, h) : b \in {-5 * HourMs, HourMs},
                                   sh \in {-HourMs, HourMs},
                                   d \in 1 .. (6 + MaxDays), h \in {0, 2}}

\* the instants of the model: every hour of MaxDays days, on the hour and a
\* millisecond before the next
Instants ==
  {(7 + d) * DayMs + h * HourMs + j : d \in 0 .. (MaxDays - 1), h \in 0 .. 23,
                                      j \in {0, HourMs - 1}}

----------------------------------------------------------------------------
\* no request in the process, tokens.json absent
ServerIdle ==
  /\ now = 0
  /\ ticks = 0
  /\ fileExists = FALSE
  /\ fileRaw = <<>>
  /\ weatherCfg = TRUE
  /\ pc = [r \in Reqs |-> "idle"]
  /\ route = [r \in Reqs |-> "none"]
  /\ callNow = [r \in Reqs |-> 0]
  /\ tokens = [r \in Reqs |-> Null]
  /\ sentRefresh = [r \in Reqs |-> Null]
  /\ accessToken = [r \in Reqs |-> Null]
  /\ task = [r \in Reqs |-> [k \in TaskNames |-> "none"]]
  /\ allState = [r \in Reqs |-> "none"]
  /\ responses = [r \in Reqs |-> <<>>]
  /\ writes = 0
  /\ hLoadWrites = [r \in Reqs |-> 0]
  /\ hLoadFile = [r \in Reqs |-> Null]
  /\ hLoadExists = [r \in Reqs |-> FALSE]
  /\ hLoadWriter = [r \in Reqs |-> ""]
  /\ hRefreshes = [r \in Reqs |-> 0]
  /\ hOutcome = [r \in Reqs |-> -1]
  /\ hResp = [r \in Reqs |-> Null]
  /\ hSaves = [r \in Reqs |-> 0]
  /\ hError = [r \in Reqs |-> ""]
  /\ hFetches = [r \in Reqs |-> {}]
  /\ hForecast = [r \in Reqs |-> Null]
  /\ lastWriter = ""

\* no date computation under way
DateIdle ==
  /\ tz = [before |-> 0, after |-> 0, switch |-> 0]
  /\ dateArg = 0
  /\ weekStart = Null

\* no weekly summary under way
WeeklyIdle ==
  /\ activities = <<>>
  /\ summary = Null

\* no forecast under way
WeatherIdle ==
  /\ list = <<>>
  /\ weatherDone = FALSE
  /\ days = Null

\* no route being decoded
PolylineIdle ==
  /\ points = <<>>
  /\ encoded = <<>>
  /\ path = Null

\* no activity being mapped
PaceIdle ==
  /\ rawActivity = [distance |-> 0, moving_time |-> 0]
  /\ mapped = Null

\* none of the other computations under way
RestIdle == PolylineIdle /\ PaceIdle

Init ==
  /\ DateIdle /\ WeeklyIdle /\ WeatherIdle /\ RestIdle
  /\ now = 0
  /\ ticks = 0
  /\ \/ /\ fileExists = FALSE
        /\ fileRaw = <<>>
     \/ /\ fileExists = TRUE
        /\ \E e \in {SafetyMargin, SafetyMargin + 1} :
             fileRaw = saveTokens(StravaTokens("a0", "r0", e))
  /\ weatherCfg \in BOOLEAN
  /\ pc = [r \in Reqs |-> "idle"]
  /\ route = [r \in Reqs |-> "none"]
  /\ callNow = [r \in Reqs |-> 0]
  /\ tokens = [r \in Reqs |-> Null]
  /\ sentRefresh = [r \in Reqs |-> Null]
  /\ accessToken = [r \in Reqs |-> Null]
  /\ task = [r \in Reqs |-> [k \in TaskNames |-> "none"]]
  /\ allState = [r \in Reqs |-> "none"]
  /\ responses = [r \in Reqs |-> <<>>]
  /\ writes = 0
  /\ hLoadWrites = [r \in Reqs |-> 0]
  /\ hLoadFile = [r \in Reqs |-> Null]
  /\ hLoadExists = [r \in Reqs |-> FALSE]
  /\ hLoadWriter = [r \in Reqs |-> ""]
  /\ hRefreshes = [r \in Reqs |-> 0]
  /\ hOutcome = [r \in Reqs |-> -1]
  /\ hResp = [r \in Reqs |-> Null]
  /\ hSaves = [r \in Reqs |-> 0]
  /\ hError = [r \in Reqs |-> ""]
  /\ hFetches = [r \in Reqs |-> {}]
  /\ hForecast = [r \in Reqs |-> Null]
  /\ lastWriter = ""

\* The clock moves on between any two events.  Only token acquisition
\* reads it (index.ts:52, and the expires_at of an answer), so its moves
\* are followed while some request has yet to acquire its token.
Tick ==
  /\ UNCHANGED pureVars
  /\ ticks < MaxTicks
  /\ \E r \in Reqs : pc[r] \in {"idle", "refreshing"}
  /\ \E d \in TickSteps : now' = now + d
  /\ ticks' = ticks + 1
  /\ UNCHANGED <<fileExists, fileRaw, weatherCfg, reqVars, histVars>>

\* A request arrives; its handler runs getValidAccessToken up to the first
\* await (index.ts:46-66) or to its return / throw.
GetValidAccessToken(r, rt) ==
  /\ UNCHANGED pureVars
  /\ pc[r] = "idle"
  /\ rt \in RoutesOf[r]
  /\ route' = [route EXCEPT ![r] = rt]
  /\ LET loaded == loadTokens IN
     /\ hLoadWrites' = [hLoadWrites EXCEPT ![r] = writes]
     /\ hLoadFile' = [hLoadFile EXCEPT ![r] = loaded]
     /\ hLoadExists' = [hLoadExists EXCEPT ![r] = fileExists]
     /\ hLoadWriter' = [hLoadWriter EXCEPT ![r] = lastWriter]
     /\ tokens' = [tokens EXCEPT ![r] = loaded]
     /\ callNow' = [callNow EXCEPT ![r] = now]
     /\ IF IsNull(loaded)
        THEN \* throw new Error(...), caught by the route: 500
             /\ pc' = [pc EXCEPT ![r] = "done"]
             /\ hError' = [hError EXCEPT ![r] = NoTokens]
             /\ responses' = [responses EXCEPT ![r] = Append(@, ErrorResponse(NoTokens))]
             /\ UNCHANGED <<sentRefresh, accessToken, hRefreshes>>
        ELSE IF NeedsRefresh(Val(loaded), now)
        THEN \* POST grant_type=refresh_token, refresh_token: tokens.refresh_token
             /\ pc' = [pc EXCEPT ![r] = "refreshing"]
             /\ sentRefresh' = [sentRefresh EXCEPT ![r] = Some(Val(loaded).refresh_token)]
             /\ hRefreshes' = [hRefreshes EXCEPT ![r] = @ + 1]
             /\ UNCHANGED <<accessToken, hError, responses>>
        ELSE \* return tokens.access_token
             /\ pc' = [pc EXCEPT ![r] = "haveToken"]
             /\ accessToken' = [accessToken EXCEPT ![r] = Some(Val(loaded).access_token)]
             /\ UNCHANGED <<sentRefresh, hRefreshes, hError, responses>>
  /\ UNCHANGED <<tokenVars, weatherCfg, task, allState, writes, hOutcome,
                 hResp, hSaves, hFetches, hForecast, lastWriter>>

\* body of a token-endpoint answer to the exchange of request r
TokenEndpointBody(r, rotate, d) ==
  [access_token |-> MintedAccess[r],
   refresh_token |-> IF rotate \/ IsNull(sentRefresh[r]) THEN MintedRefresh[r]
                     ELSE Val(sentRefresh[r]),
   expires_at |-> now + d]

\* The token endpoint answers the refresh exchange (index.ts:66-80).
RefreshAnswer(r, status, json) ==
  /\ UNCHANGED pureVars
  /\ pc[r] = "refreshing"
  /\ hOutcome' = [hOutcome EXCEPT ![r] = status]
  /\ sentRefresh' = [sentRefresh EXCEPT ![r] = Null]
  /\ IF fetchJsonThrows(status)
     THEN \* fetchJson throws; the route's catch answers 500
          /\ pc' = [pc EXCEPT ![r] = "done"]
          /\ hError' = [hError EXCEPT ![r] = "HTTP"]
          /\ responses' = [responses EXCEPT ![r] = Append(@, ErrorResponse("HTTP"))]
          /\ UNCHANGED <<fileExists, fileRaw, tokens, accessToken, writes,
                         hResp, hSaves, lastWriter>>
     ELSE LET t == TokensFromJson(json) IN
          /\ tokens' = [tokens EXCEPT ![r] = Some(t)]
          /\ fileExists' = TRUE
          /\ fileRaw' = saveTokens(t)
          /\ writes' = writes + 1
          /\ lastWriter' = r
          /\ hSaves' = [hSaves EXCEPT ![r] = @ + 1]
          /\ hResp' = [hResp EXCEPT ![r] = Some(json)]
          /\ accessToken' = [accessToken EXCEPT ![r] = Some(t.access_token)]
          /\ pc' = [pc EXCEPT ![r] = "haveToken"]
          /\ UNCHANGED <<hError, responses>>
  /\ UNCHANGED <<now, ticks, weatherCfg, route, callNow, task, allState,
                 hLoadWrites, hLoadFile, hLoadExists, hLoadWriter, hRefreshes,
                 hFetches, hForecast>>

(* getWeather, index.ts:196-271: the part after the fetch *)

\* seconds of a day
DaySec == 60 * 60 * 24

\* index.ts:225-226  new Date(entry.dt * 1000).toISOString().slice(0, 10):
\* the UTC date of the sample.  The date is held as its day number since
\* 1970-01-01; the order of the YYYY-MM-DD strings is the order of the
\* day numbers.
dateStr(entry) == entry.dt \div DaySec

\* index.ts:224-240: the grouping loop, from entry i on.  dm is daysMap as
\* [keys, at]: the keys in insertion order (the order Object.keys gives)
\* and the value of each key.
RECURSIVE GroupSamples(_, _, _)
GroupSamples(l, i, dm) ==
  IF i > Len(l) THEN dm
  ELSE LET entry == l[i]
           ds == dateStr(entry)
           known == \E k \in 1 .. Len(dm.keys) : dm.keys[k] = ds
           old == IF known THEN dm.at[ds]
                  ELSE [temps |-> <<>>, conditions |-> <<>>, icons |-> <<>>]
           new == [temps |-> Append(old.temps, entry.temp),
                   conditions |-> IF entry.main # "" THEN Append(old.conditions, entry.main)
                                  ELSE old.conditions,
                   icons |-> IF entry.icon # "" THEN Append(old.icons, entry.icon)
                             ELSE old.icons]
       IN GroupSamples(l, i + 1,
            [keys |-> IF known THEN dm.keys ELSE Append(dm.keys, ds),
             at |-> [d \in DOMAIN dm.at \cup {ds} |-> IF d = ds THEN new ELSE dm.at[d]]])

\* Array.prototype.sort on the keys: ascending
RECURSIVE InsertSorted(_, _)
InsertSorted(sorted, x) ==
  IF sorted = <<>> THEN <<x>>
  ELSE IF x < Head(sorted) THEN <<x>> \o sorted
  ELSE <<Head(sorted)>> \o InsertSorted(Tail(sorted), x)

RECURSIVE SortKeys(_)
SortKeys(keys) ==
  IF keys = <<>> THEN <<>>
  ELSE InsertSorted(SortKeys(SubSeq(keys, 1, Len(keys) - 1)), keys[Len(keys)])

\* (mutant) the keys left in insertion order
KeysUnsorted(keys) == keys

\* index.ts:242  Object.keys(daysMap).sort()
SortedDates(keys) == SortKeys(keys)

\* index.ts:251  dates.slice(0, 7)
FirstSeven(dates) == SubSeq(dates, 1, IF Len(dates) < 7 THEN Len(dates) ELSE 7)

\* Math.max(...temps), Math.min(...temps)
MathMax(temps) == CHOOSE x \in {temps[i] : i \in 1 .. Len(temps)} :
                    \A i \in 1 .. Len(temps) : temps[i] <= x
MathMin(temps) == CHOOSE x \in {temps[i] : i \in 1 .. Len(temps)} :
                    \A i \in 1 .. Len(temps) : temps[i] >= x

\* number of occurrences of v in arr
CountOf(arr, v) == Cardinality({i \in 1 .. Len(arr) : arr[i] = v})

\* the labels of the model that are canonical array indices ("1" is, "01d"
\* and "Clear" are not), with the number each one writes; -1 for the others
ArrayIndex(v) == CASE v = "1" -> 1 [] v = "2" -> 2 [] OTHER -> -1

\* the distinct values of arr in the order of their first occurrence: the
\* order in which the loop of index.ts:247 creates the properties of counts
RECURSIVE FirstOccurrences(_)
FirstOccurrences(arr) ==
  IF arr = <<>> THEN <<>>
  ELSE LET before == FirstOccurrences(SubSeq(arr, 1, Len(arr) - 1))
           v == arr[Len(arr)]
       IN IF \E i \in 1 .. Len(before) : before[i] = v THEN before
          ELSE Append(before, v)

\* the keys that are array indices, in ascending numeric order
RECURSIVE IndexKeysAscending(_)
IndexKeysAscending(ks) ==
  IF ks = {} THEN <<>>
  ELSE LET least == CHOOSE k \in ks : \A o \in ks : ArrayIndex(k) <= ArrayIndex(o)
       IN <<least>> \o IndexKeysAscending(ks \ {least})

\* index.ts:248  Object.entries(counts): the own property keys of an
\* object are its array-index keys in ascending numeric order, then its
\* other string keys in the order of their creation
OwnPropertyKeys(arr) ==
  LET created == FirstOccurrences(arr)
      isIndex(k) == ArrayIndex(k) >= 0
      notIndex(k) == ArrayIndex(k) < 0
  IN IndexKeysAscending({created[i] : i \in {j \in 1 .. Len(created) : isIndex(created[j])}})
       \o SelectSeq(created, notIndex)

\* index.ts:244-249: the entries of counts are sorted by descending count
\* (Array.prototype.sort is stable, so equal counts keep the order of
\* Object.entries) and the key of the first entry is returned
mostCommon(arr) ==
  IF arr = <<>> THEN ""
  ELSE LET keys == OwnPropertyKeys(arr)
           top == CHOOSE i \in 1 .. Len(keys) :
                    \A j \in 1 .. Len(keys) :
                      \/ CountOf(arr, keys[i]) > CountOf(arr, keys[j])
                      \/ CountOf(arr, keys[i]) = CountOf(arr, keys[j]) /\ i <= j
       IN keys[top]

\* index.ts:255-258  the short weekday of the date
WeekdayShort == <<"Sun", "Mon", "Tue", "Wed", "Thu", "Fri", "Sat">>
dayLabelOf(ds) == WeekdayShort[((ds + 4) % 7) + 1]

\* (mutant) the days of an empty list too: an empty array
getWeatherNoEmptyCheck(l) ==
  LET daysMap == GroupSamples(l, 1, [keys |-> <<>>, at |-> <<>>])
      shown == FirstSeven(SortedDates(daysMap.keys))
  IN Some([i \in 1 .. Len(shown) |->
             LET g == daysMap.at[shown[i]] IN
             [date |-> shown[i],
              day |-> dayLabelOf(shown[i]),
              highC |-> MathMax(g.temps),
              lowC |-> MathMin(g.temps),
              condition |-> mostCommon(g.conditions),
              icon |-> mostCommon(g.icons)]])

\* index.ts:215-270, after the fetch: null for an empty list, else the days
getWeather(l) ==
  IF Len(l) = 0 THEN Null
  ELSE LET daysMap == GroupSamples(l, 1, [keys |-> <<>>, at |-> <<>>])
           dates == SortedDates(daysMap.keys)
           shown == FirstSeven(dates)
       IN Some([i \in 1 .. Len(shown) |->
                  LET g == daysMap.at[shown[i]] IN
                  [date |-> shown[i],
                   day |-> dayLabelOf(shown[i]),
                   highC |-> MathMax(g.temps),
                   lowC |-> MathMin(g.temps),
                   condition |-> mostCommon(g.conditions),
                   icon |-> mostCommon(g.icons)]])

----------------------------------------------------------------------------
(* the routes *)

\* what an upstream fetch can end in: a 2xx answer with data, a 2xx answer
\* whose list is empty (the forecast feed only), or a failure (fetchJson
\* throws)
Outcomes(k) == IF k = "weather" THEN {"ok", "empty", "fail"} ELSE {"ok", "fail"}

\* json.list of a forecast answer
ForecastAnswer(o) ==
  IF o = "empty" THEN <<>>
  ELSE <<[dt |-> 19844 * DaySec, temp |-> 14, main |-> "Clear", icon |-> "01d"]>>

\* what the call settles as when its fetch ends in o: rejected ("fail"),
\* fulfilled with data ("ok"), or, for getWeather, fulfilled with null
\* (index.ts:215-216)
Settled(k, o) ==
  IF o = "fail" THEN "fail"
  ELSE IF k = "weather"
  THEN (IF IsNull(getWeather(ForecastAnswer(o))) THEN "null" ELSE "ok")
  ELSE "ok"

\* (mutant) Promise.allSettled: fulfilled once every member has settled
CombinedSettled(rt, tk) ==
  IF \A k \in Awaited(rt) : tk[k] \in {"ok", "null", "fail"} THEN "fulfilled"
  ELSE "pending"

\* state of the awaited promise: Promise.all rejects with the first
\* rejection and fulfils when every member is fulfilled
Combined(rt, tk) ==
  IF \E k \in Awaited(rt) : tk[k] = "fail" THEN "rejected"
  ELSE IF \A k \in Awaited(rt) : tk[k] \in {"ok", "null"} THEN "fulfilled"
  ELSE "pending"

\* the calls whose first synchronous part issues an upstream fetch:
\* getWeather returns null before fetching when its configuration is missing
\* (index.ts:197-200)
Fetching(rt) ==
  IF rt = "dashboard"
  THEN {"recent", "weekly"} \cup (IF weatherCfg THEN {"weather"} ELSE {})
  ELSE {"recent"}

\* The handler resumes with the access token and starts its data calls
\* (index.ts:369-373, or index.ts:355): each runs to its first await.
FanOut(r) ==
  /\ UNCHANGED pureVars
  /\ pc[r] = "haveToken"
  /\ LET rt == route[r]
         tk == [k \in TaskNames |->
                  IF k \in Fetching(rt) THEN "pending"
                  ELSE IF k \in Awaited(rt) THEN "null" ELSE "none"]
     IN /\ task' = [task EXCEPT ![r] = tk]
        /\ allState' = [allState EXCEPT ![r] = Combined(rt, tk)]
        /\ hFetches' = [hFetches EXCEPT ![r] =
             {[task |-> k, bearer |-> IF k = "weather" THEN "" ELSE Bearer(r)] :
                k \in Fetching(rt)}]
  /\ pc' = [pc EXCEPT ![r] = "fanout"]
  /\ UNCHANGED <<tokenVars, weatherCfg, route, callNow, tokens, sentRefresh,
                 accessToken, responses, writes, hLoadWrites, hLoadFile,
                 hLoadExists, hLoadWriter, hRefreshes, hOutcome, hResp, hSaves,
                 hError, hForecast, lastWriter>>

\* An upstream data fetch completes and its call settles; the awaited
\* promise settles with it unless it is already settled.  Calls keep
\* settling after the handler has answered.
TaskSettle(r, k, o) ==
  /\ UNCHANGED pureVars
  /\ task[r][k] = "pending"
  /\ o \in Outcomes(k)
  /\ LET tk == [task[r] EXCEPT ![k] = Settled(k, o)] IN
     /\ task' = [task EXCEPT ![r] = tk]
     /\ allState' = [allState EXCEPT ![r] =
          IF @ = "pending" THEN Combined(route[r], tk) ELSE @]
  /\ hForecast' = IF k = "weather" /\ o # "fail"
                  THEN [hForecast EXCEPT ![r] = Some(ForecastAnswer(o))]
                  ELSE hForecast
  /\ UNCHANGED <<tokenVars, weatherCfg, pc, route, callNow, tokens,
                 sentRefresh, accessToken, responses, writes, hLoadWrites,
                 hLoadFile, hLoadExists, hLoadWriter, hRefreshes, hOutcome,
                 hResp, hSaves, hError, hFetches, lastWriter>>

\* what the route writes when its await settles: res.json(...) in the try
\* block, or res.status(500).json(...) in the catch block
RouteResponse(rt, st, tk) ==
  IF st = "fulfilled" THEN OkResponse(rt, tk) ELSE ErrorResponse("HTTP")

\* The handler resumes after its await (index.ts:375-388, 356-360).
HandlerResume(r) ==
  /\ UNCHANGED pureVars
  /\ pc[r] = "fanout"
  /\ allState[r] # "pending"
  /\ responses' = [responses EXCEPT ![r] = Append(@, RouteResponse(route[r], allState[r], task[r]))]
  /\ pc' = [pc EXCEPT ![r] = "done"]
  /\ UNCHANGED <<tokenVars, weatherCfg, route, callNow, tokens, sentRefresh,
                 accessToken, task, allState, histVars>>

Next ==
  \/ Tick
  \/ \E r \in Reqs, rt \in {"dashboard", "last-activity"} : GetValidAccessToken(r, rt)
  \/ \E r \in Reqs, status \in RefreshOutcomes, rotate \in BOOLEAN, d \in ExpiresIn :
       RefreshAnswer(r, status, TokenEndpointBody(r, rotate, d))
  \/ \E r \in Reqs : FanOut(r)
  \/ \E r \in Reqs, k \in TaskNames, o \in {"ok", "empty", "fail"} : TaskSettle(r, k, o)
  \/ \E r \in Reqs : HandlerResume(r)

Spec == Init /\ [][Next]_vars

----------------------------------------------------------------------------
(* getStartOfWeek applied to an instant, in a local time zone *)

InitStartOfWeek ==
  /\ ServerIdle /\ WeeklyIdle /\ WeatherIdle /\ RestIdle
  /\ tz \in TimeZones
  /\ dateArg \in Instants
  /\ weekStart = Null

CallGetStartOfWeek ==
  /\ IsNull(weekStart)
  /\ weekStart' = Some(getStartOfWeek(tz, dateArg))
  /\ UNCHANGED <<serverVars, restVars, tz, dateArg, weeklyVars, weatherVars>>

NextStartOfWeek == CallGetStartOfWeek

SpecStartOfWeek == InitStartOfWeek /\ [][NextStartOfWeek]_vars

----------------------------------------------------------------------------
(* Properties of the token manager and of the routes, checked under Spec *)

\* request r's getValidAccessToken has resolved with a token
Returned(r) == ~IsNull(accessToken[r])

\* request r's refresh exchange was answered, and not with a 2xx status
RefreshFailedFor(r) ==
  hOutcome[r] # -1 /\ ~(hOutcome[r] >= 200 /\ hOutcome[r] <= 299)

\* C1: whenever getValidAccessToken returns, the pair whose access_token it
\* returns has expires_at > now + 60, now being the time of the call.
C1_ReturnedPairOutsideMargin ==
  \A r \in Reqs :
    Returned(r) => Val(tokens[r]).expires_at > callNow[r] + 60

\* the second call r2 loaded the file that the refresh of r1 wrote, and that
\* pair is still outside the margin at r2's call
SecondCallAfterRefresh(r1, r2) ==
  /\ r1 # r2
  /\ pc[r2] # "idle"
  /\ hLoadWriter[r2] = r1
  /\ ~IsNull(hResp[r1])
  /\ Val(hResp[r1]).expires_at > callNow[r2] + 60

\* C2: a call that starts after a call's successful refresh has returned,
\* while the pair that refresh stored is still outside the safety margin,
\* sends no refresh exchange: it loads the refreshed pair and returns its
\* access_token, so the two calls together send exactly one exchange.
C2_SecondCallSendsNoRefresh ==
  \A r1, r2 \in Reqs :
    SecondCallAfterRefresh(r1, r2) =>
      /\ hRefreshes[r2] = 0
      /\ hRefreshes[r1] + hRefreshes[r2] = 1
      /\ hLoadFile[r2] = Some([access_token |-> Val(hResp[r1]).access_token,
                               refresh_token |-> Val(hResp[r1]).refresh_token,
                               expires_at |-> Val(hResp[r1]).expires_at])
      /\ accessToken[r2] = Some(Val(hResp[r1]).access_token)

C2_Witness ==
  \E r1, r2 \in Reqs :
    /\ SecondCallAfterRefresh(r1, r2)
    /\ hLoadExists[r1] /\ Val(hLoadFile[r1]).expires_at <= callNow[r1] + 60
    /\ Returned(r2)

\* C3: when the refresh exchange fails (transport error or non-2xx), the
\* call fails with an error and returns no token, it never calls saveTokens,
\* and the file is the one it loaded unless another request saved since.
C3_FailedRefreshLeavesStore ==
  \A r \in Reqs :
    RefreshFailedFor(r) =>
      /\ pc[r] = "done"
      /\ hError[r] # ""
      /\ ~Returned(r)
      /\ hSaves[r] = 0
      /\ responses[r] = <<[status |-> 500, sections |-> {}, error |-> hError[r],
                            weather |-> "none"]>>
      /\ writes = hLoadWrites[r] =>
           /\ fileExists
           /\ JSONParse(fileRaw) = Val(hLoadFile[r])

C3_Witness ==
  \E r \in Reqs :
    /\ RefreshFailedFor(r) /\ hOutcome[r] = 401
    /\ writes = hLoadWrites[r]
    /\ \E q \in Reqs : RefreshFailedFor(q) /\ hOutcome[q] = 0

\* C4: with no tokens.json, getValidAccessToken fails with the
\* credentials-missing error, sends nothing to the token endpoint (and the
\* route issues no data fetch), and the store stays empty.
C4_NoTokensNoRequest ==
  \A r \in Reqs :
    (pc[r] # "idle" /\ ~hLoadExists[r]) =>
      /\ pc[r] = "done"
      /\ hError[r] = "No Strava tokens found. Connect Strava first."
      /\ ~Returned(r)
      /\ hRefreshes[r] = 0 /\ IsNull(sentRefresh[r]) /\ hOutcome[r] = -1
      /\ hFetches[r] = {}
      /\ hSaves[r] = 0
      /\ ~fileExists
      /\ responses[r] = <<[status |-> 500, sections |-> {}, error |-> hError[r],
                            weather |-> "none"]>>

C4_Witness == \E r \in Reqs : pc[r] = "done" /\ ~hLoadExists[r]

\* C5: after a successful refresh the call has saved once, the saved pair is
\* the response in all three fields (nothing of the previous pair is kept),
\* the save is done when the call returns, and the token returned is the
\* access_token of the saved pair.
C5_RefreshPersistsResponse ==
  \A r \in Reqs :
    ~IsNull(hResp[r]) =>
      /\ hSaves[r] = 1
      /\ Returned(r)
      /\ accessToken[r] = Some(Val(hResp[r]).access_token)
      /\ tokens[r] = Some([access_token |-> Val(hResp[r]).access_token,
                           refresh_token |-> Val(hResp[r]).refresh_token,
                           expires_at |-> Val(hResp[r]).expires_at])
      /\ lastWriter = r =>
           /\ fileExists
           /\ JSONGet(fileRaw, "access_token") = Val(hResp[r]).access_token
           /\ JSONGet(fileRaw, "refresh_token") = Val(hResp[r]).refresh_token
           /\ JSONGet(fileRaw, "expires_at") = Val(hResp[r]).expires_at
           /\ Len(fileRaw) = 3
           /\ Val(accessToken[r]) = JSONGet(fileRaw, "access_token")

\* a refresh whose response rotated the refresh token and changed all fields
C5_Witness ==
  \E r \in Reqs :
    /\ ~IsNull(hResp[r]) /\ lastWriter = r
    /\ Val(hResp[r]).refresh_token # Val(hLoadFile[r]).refresh_token
    /\ Val(hResp[r]).access_token # Val(hLoadFile[r]).access_token
    /\ Val(hResp[r]).expires_at # Val(hLoadFile[r]).expires_at

\* C6: a dashboard request gets at most one response, and exactly one once
\* its handler is done; if any of the three calls failed, every response it
\* got is a 500 with an {error} body carrying no section; a 200 is sent only
\* when all three calls are fulfilled, and carries all three.
C6_AllOrNothing ==
  \A r \in Reqs :
    route[r] = "dashboard" =>
      /\ Len(responses[r]) <= 1
      /\ pc[r] = "done" <=> Len(responses[r]) = 1
      /\ \A i \in DOMAIN responses[r] :
           /\ responses[r][i].status \in {200, 500}
           /\ responses[r][i].status = 200 =>
                /\ \A k \in {"recent", "weekly", "weather"} : task[r][k] \in {"ok", "null"}
                /\ responses[r][i].sections = {"recent", "weekly", "weather"}
           /\ responses[r][i].status = 500 =>
                /\ responses[r][i].sections = {}
                /\ responses[r][i].error # ""
      /\ (\E k \in {"recent", "weekly", "weather"} : task[r][k] = "fail") =>
           \A i \in DOMAIN responses[r] : responses[r][i].status = 500

\* a 500 sent on the second call's failure while the third is still pending
C6_Witness ==
  \E r \in Reqs :
    /\ route[r] = "dashboard" /\ pc[r] = "done"
    /\ task[r]["recent"] = "ok" /\ task[r]["weekly"] = "fail"
    /\ task[r]["weather"] = "pending"
    /\ Len(responses[r]) = 1 /\ responses[r][1].status = 500

\* the token the acquisition of request r has to return: the response's
\* after a refresh, the loaded pair's otherwise
AcquiredToken(r) ==
  IF hRefreshes[r] > 0 THEN Val(hResp[r]).access_token
  ELSE Val(hLoadFile[r]).access_token

\* C7: in a dashboard request no data fetch is issued before token
\* acquisition (with its refresh exchange and save, if any) has succeeded,
\* the two activity fetches carry the token it returned, and a failed
\* acquisition answers 500 with no data fetch issued.
C7_TokenBeforeFanOut ==
  \A r \in Reqs :
    route[r] = "dashboard" =>
      /\ pc[r] \in {"idle", "refreshing"} =>
           /\ hFetches[r] = {}
           /\ \A k \in TaskNames : task[r][k] = "none"
      /\ hFetches[r] # {} =>
           /\ Returned(r) /\ hError[r] = ""
           /\ hRefreshes[r] > 0 =>
                /\ hOutcome[r] >= 200 /\ hOutcome[r] <= 299
                /\ hSaves[r] = 1
           /\ {f.task : f \in hFetches[r]} \ {"weather"} = {"recent", "weekly"}
           /\ \A f \in hFetches[r] :
                f.task # "weather" => f.bearer = AcquiredToken(r)
      /\ hError[r] # "" =>
           /\ hFetches[r] = {}
           /\ \A k \in TaskNames : task[r][k] = "none"
           /\ pc[r] = "done"
           /\ responses[r] = <<[status |-> 500, sections |-> {}, error |-> hError[r],
                            weather |-> "none"]>>

\* fetches issued after a refresh that changed the access token
C7_Witness ==
  \E r \in Reqs :
    /\ route[r] = "dashboard" /\ hFetches[r] # {}
    /\ hRefreshes[r] = 1
    /\ Val(hResp[r]).access_token # Val(hLoadFile[r]).access_token
    /\ \E f \in hFetches[r] : f.task = "weekly" /\ f.bearer = Val(hResp[r]).access_token

----------------------------------------------------------------------------
(* getWeeklySummary applied to the activities upstream returned *)

\* index.ts:161
dayNames == <<"Mon", "Tue", "Wed", "Thu", "Fri", "Sat", "Sun">>

\* (mutant) every activity kept
AllTypes(acts) == acts

\* index.ts:159  activities.filter((a) => a.type === "Run")
RunsOnly(acts) == SelectSeq(acts, LAMBDA a : a.type = "Run")

\* index.ts:170-171  Math.floor((start.getTime() - startOfWeek.getTime()) / DayMs)
diffDays(a, startOfWeek) == (a.start_date - startOfWeek) \div DayMs

\* index.ts:175  a.distance / 1000: kilometres, held exactly as thousandths
distKm(a) == a.distance

\* index.ts:168-180: the loop over runs, from run i on; acc is
\* [byDay, totalDist, totalElev]
RECURSIVE SumRuns(_, _, _, _)
SumRuns(runs, i, startOfWeek, acc) ==
  IF i > Len(runs) THEN acc
  ELSE LET a == runs[i]
           dd == diffDays(a, startOfWeek)
       IN IF dd < 0 \/ dd > 6
          THEN SumRuns(runs, i + 1, startOfWeek, acc)
          ELSE LET dayLabel == dayNames[dd + 1]
               IN SumRuns(runs, i + 1, startOfWeek,
                    [byDay |-> [acc.byDay EXCEPT ![dayLabel] = @ + distKm(a)],
                     totalDist |-> acc.totalDist + distKm(a),
                     totalElev |-> acc.totalElev + a.total_elevation_gain])

\* startOfWeek.toISOString().slice(0, 10): the UTC date, as a day number
ISODate(t) == t \div DayMs

\* index.ts:140-193, after the fetch
getWeeklySummary(startOfWeek, acts) ==
  LET runs == RunsOnly(acts)
      zero == [byDay |-> [d \in {dayNames[i] : i \in 1 .. Len(dayNames)} |-> 0],
               totalDist |-> 0, totalElev |-> 0]
      acc == SumRuns(runs, 1, startOfWeek, zero)
  IN [startOfWeek |-> ISODate(startOfWeek),
      totalDistanceKm |-> acc.totalDist,
      totalElevGainMeters |-> acc.totalElev,
      byDay |-> [i \in 1 .. Len(dayNames) |->
                   [day |-> dayNames[i], distanceKm |-> acc.byDay[dayNames[i]]]]]

\* the zones and instants of the weekly model: no clock change, or the
\* clocks set back on the Wednesday of the week of 1970-01-12; the Sunday
\* noon of that week
WeeklyZones ==
  {[before |-> -5 * HourMs, after |-> -5 * HourMs, switch |-> 0],
   [before |-> -5 * HourMs, after |-> -6 * HourMs, switch |-> 13 * DayMs + 7 * HourMs]}
WeeklyNows == {17 * DayMs + 17 * HourMs}

\* the activities upstream can return: two runs and a ride, starting at a
\* local midnight (in the zone's first offset) of the days around the week,
\* or a millisecond before it
UpstreamActivities(z) ==
  {[type |-> k[1], distance |-> k[2], total_elevation_gain |-> k[3],
    start_date |-> d * DayMs - z.before + j] :
     k \in {<<"Run", 5000, 50>>, <<"Run", 1234, 7>>, <<"Ride", 20000, 300>>},
     d \in 10 .. 18, j \in {0, -1}}

InitWeekly ==
  /\ ServerIdle /\ WeatherIdle /\ RestIdle
  /\ tz \in WeeklyZones
  /\ dateArg \in WeeklyNows
  /\ weekStart = Null
  /\ activities = <<>>
  /\ summary = Null

\* one more activity in the answer of the activities endpoint
ReturnActivity(a) ==
  /\ IsNull(summary)
  /\ Len(activities) < MaxActs
  /\ activities' = Append(activities, a)
  /\ UNCHANGED <<serverVars, restVars, dateVars, summary, weatherVars>>

\* getWeeklySummary runs: week start from `now`, then the summary of the answer
CallGetWeeklySummary ==
  /\ IsNull(summary)
  /\ LET startOfWeek == getStartOfWeek(tz, dateArg) IN
       /\ weekStart' = Some(startOfWeek)
       /\ summary' = Some(getWeeklySummary(startOfWeek, activities))
  /\ UNCHANGED <<serverVars, restVars, tz, dateArg, activities, weatherVars>>

NextWeekly ==
  \/ \E a \in UpstreamActivities(tz) : ReturnActivity(a)
  \/ CallGetWeeklySummary

SpecWeekly == InitWeekly /\ [][NextWeekly]_vars

----------------------------------------------------------------------------
(* getWeather applied to the samples of a forecast answer *)

\* the samples of the model: two days around 2024-05-01 (day 19844), at
\* the first or the last second of the UTC day, at -3 or 14 degrees
FreeSamples ==
  {[dt |-> d * DaySec + sec, temp |-> t, main |-> "Clear", icon |-> "01d"] :
     d \in {19844, 19845}, sec \in {0, DaySec - 1}, t \in {-3, 14}}

\* a sample of a date just outside the dates the answer holds so far
FurtherSamples(l) ==
  LET ds == {dateStr(l[i]) : i \in 1 .. Len(l)}
      lo == CHOOSE d \in ds : \A e \in ds : d <= e
      hi == CHOOSE d \in ds : \A e \in ds : d >= e
  IN {[dt |-> d * DaySec + 3 * 60 * 60, temp |-> 10, main |-> "Clear", icon |-> "01d"] :
        d \in {lo - 1, hi + 1}}

InitWeather ==
  /\ ServerIdle /\ DateIdle /\ WeeklyIdle /\ RestIdle
  /\ list = <<>>
  /\ weatherDone = FALSE
  /\ days = Null

\* one more sample in the forecast answer
ForecastSample(smp) ==
  /\ ~weatherDone
  /\ Len(list) < MaxSamples
  /\ list' = Append(list, smp)
  /\ UNCHANGED <<serverVars, restVars, dateVars, weeklyVars, weatherDone, days>>

\* getWeather works through the answer
CallGetWeather ==
  /\ ~weatherDone
  /\ weatherDone' = TRUE
  /\ days' = getWeather(list)
  /\ UNCHANGED <<serverVars, restVars, dateVars, weeklyVars, list>>

NextWeather ==
  \/ \E smp \in FreeSamples : Len(list) < MaxFree /\ ForecastSample(smp)
  \/ \E smp \in (IF Len(list) >= MaxFree THEN FurtherSamples(list) ELSE {}) :
       ForecastSample(smp)
  \/ CallGetWeather

SpecWeather == InitWeather /\ [][NextWeather]_vars

----------------------------------------------------------------------------
(* getWeather applied to samples of free condition labels and icon codes *)

\* the condition label, icon code and temperature of the samples: the
\* labels and codes of the forecast feed, a missing label, a missing code,
\* and two labels that are written as numbers
SampleKinds ==
  {<<"Clear", "01d", 10>>, <<"Clear", "02d", 14>>, <<"Rain", "10d", 8>>,
   <<"Rain", "", 8>>, <<"", "10d", 10>>, <<"2", "01d", 10>>, <<"1", "10d", 14>>}

\* samples of 2024-05-01 and 2024-05-02
LabelledSamples ==
  {[dt |-> d * DaySec + 12 * 60 * 60, temp |-> k[3], main |-> k[1], icon |-> k[2]] :
     d \in {19844, 19845}, k \in SampleKinds}

NextDominant ==
  \/ \E smp \in LabelledSamples : Len(list) < MaxLabelled /\ ForecastSample(smp)
  \/ CallGetWeather

SpecDominant == InitWeather /\ [][NextDominant]_vars

----------------------------------------------------------------------------
(* App.tsx: decodePolyline.  A string is the sequence of its char codes. *)

\* what charCodeAt gives past the end of the string, and what arithmetic
\* on it gives
NaN == 99999

\* encoded.charCodeAt(i), i counted from 0
charCodeAt(str, i) == IF i >= 0 /\ i < Len(str) THEN str[i + 1] ELSE NaN

\* a | b of two non-negative 32-bit integers
RECURSIVE BitOr(_, _)
BitOr(a, b) ==
  IF a = 0 THEN b
  ELSE IF b = 0 THEN a
  ELSE 2 * BitOr(a \div 2, b \div 2) + (IF a % 2 = 1 \/ b % 2 = 1 THEN 1 ELSE 0)

\* 2 to the n
RECURSIVE Pow2(_)
Pow2(n) == IF n = 0 THEN 1 ELSE 2 * Pow2(n - 1)

\* b & 0x1f; NaN is taken as 0 by the bit operators
LowFive(b) == IF b = NaN THEN 0 ELSE b % 32

\* x << shift.  The shift count is taken mod 32; the results of the routes
\* of the model stay below 2^31
ShiftLeft(x, shift) == x * Pow2(shift % 32)

\* App.tsx:49-53 and 62-66: the do-while loop that reads one chunk from
\* position index on; gives the value read and the position after it
RECURSIVE readChunk(_, _, _, _)
readChunk(str, index, shift, result) ==
  LET c == charCodeAt(str, index)
      b == IF c = NaN THEN NaN ELSE c - 63
      r == BitOr(result, ShiftLeft(LowFive(b), shift))
  IN IF b # NaN /\ b >= 32
     THEN readChunk(str, index + 1, shift + 5, r)
     ELSE [result |-> r, index |-> index + 1]

\* (mutant) the sign bit dropped without the complement
unzigzagNoComplement(result) == result \div 2

\* App.tsx:55, 68  (result & 1) !== 0 ? ~(result >> 1) : result >> 1
unzigzag(result) ==
  IF result % 2 # 0 THEN -(result \div 2) - 1 ELSE result \div 2

\* a coordinate at 1e-5 degree resolution, as the decimal it is written
\* as: sign, whole degrees, and five decimal places
Degrees(neg, deg, frac) == [neg |-> neg, deg |-> deg, frac |-> frac]

\* App.tsx:71  lat / 1e5
DivE5(n) ==
  IF n < 0 THEN Degrees(TRUE, (-n) \div 100000, (-n) % 100000)
  ELSE Degrees(FALSE, n \div 100000, n % 100000)

\* App.tsx:45-72: the while loop from position index on
RECURSIVE decodeFrom(_, _, _, _, _)
decodeFrom(str, index, lat, lng, out) ==
  IF index < Len(str)
  THEN LET first == readChunk(str, index, 0, 0)
           lat2 == lat + unzigzag(first.result)
           second == readChunk(str, first.index, 0, 0)
           lng2 == lng + unzigzag(second.result)
       IN decodeFrom(str, second.index, lat2, lng2,
                     Append(out, <<DivE5(lat2), DivE5(lng2)>>))
  ELSE out

\* App.tsx:38-75
decodePolyline(str) == decodeFrom(str, 0, 0, 0, <<>>)

\* the encoded polyline format (the map.summary_polyline of an activity,
\* index.ts:120): the value v >= 0 as 5-bit groups, lowest first, each but
\* the last with the continuation bit 0x20, each offset by 63
RECURSIVE EncodeGroups(_)
EncodeGroups(v) ==
  IF v >= 32 THEN <<(32 + (v % 32)) + 63>> \o EncodeGroups(v \div 32)
  ELSE <<v + 63>>

\* a signed delta: shifted left by one, complemented if negative
EncodeSigned(d) == EncodeGroups(IF d < 0 THEN -(2 * d) - 1 ELSE 2 * d)

\* the coordinate in units of 1e-5 degree: round(x * 1e5)
TimesE5(x) ==
  IF x.neg THEN -(x.deg * 100000 + x.frac) ELSE x.deg * 100000 + x.frac

\* the encoding of point p that follows point prev
EncodePoint(prev, p) ==
  EncodeSigned(TimesE5(p[1]) - TimesE5(prev[1]))
    \o EncodeSigned(TimesE5(p[2]) - TimesE5(prev[2]))

\* the origin, from which the first point is a delta
Origin == <<Degrees(FALSE, 0, 0), Degrees(FALSE, 0, 0)>>

\* the points of the routes of the model: the origin, points one group and
\* two groups away from it on either side, the three points of the
\* format's published example, and the corners of the coordinate range
RoutePoints ==
  {Origin,
   <<Degrees(TRUE, 0, 1), Degrees(FALSE, 0, 1)>>,
   <<Degrees(FALSE, 0, 15), Degrees(TRUE, 0, 16)>>,
   <<Degrees(FALSE, 0, 16), Degrees(TRUE, 0, 17)>>,
   <<Degrees(FALSE, 38, 50000), Degrees(TRUE, 120, 20000)>>,
   <<Degrees(FALSE, 40, 70000), Degrees(TRUE, 120, 95000)>>,
   <<Degrees(FALSE, 43, 25200), Degrees(TRUE, 126, 45300)>>,
   <<Degrees(FALSE, 90, 0), Degrees(FALSE, 180, 0)>>,
   <<Degrees(TRUE, 90, 0), Degrees(TRUE, 180, 0)>>}

InitPolyline ==
  /\ ServerIdle /\ DateIdle /\ WeeklyIdle /\ WeatherIdle /\ PaceIdle
  /\ points = <<>>
  /\ encoded = <<>>
  /\ path = Null

\* the route of the activity goes on to point p
RoutePoint(p) ==
  /\ IsNull(path)
  /\ Len(points) < MaxPoints
  /\ points' = Append(points, p)
  /\ encoded' = encoded \o EncodePoint(IF points = <<>> THEN Origin
                                       ELSE points[Len(points)], p)
  /\ UNCHANGED <<serverVars, dateVars, weeklyVars, weatherVars, paceVars, path>>

\* RouteMap decodes the polyline, App.tsx:78
CallDecodePolyline ==
  /\ IsNull(path)
  /\ path' = Some(decodePolyline(encoded))
  /\ UNCHANGED <<serverVars, dateVars, weeklyVars, weatherVars, paceVars, points, encoded>>

NextPolyline ==
  \/ \E p \in RoutePoints : RoutePoint(p)
  \/ CallDecodePolyline

SpecPolyline == InitPolyline /\ [][NextPolyline]_vars

----------------------------------------------------------------------------
(* getRecentActivities, index.ts:98-107: the pace of an activity.  A
   string is the sequence of its characters. *)

\* the decimal digits
Digits == <<"0", "1", "2", "3", "4", "5", "6", "7", "8", "9">>

\* Number.prototype.toString of a non-negative integer
RECURSIVE toString(_)
toString(n) ==
  IF n < 10 THEN <<Digits[n + 1]>>
  ELSE Append(toString(n \div 10), Digits[(n % 10) + 1])

\* String.prototype.padStart(2, "0")
padStart2(str) == IF Len(str) < 2 THEN <<"0">> \o str ELSE str

\* index.ts:99-101  Math.floor(pacePerKmSec / 60), where pacePerKmSec is
\* moving_time / (distance / 1000): the quotient of 1000 * moving_time by
\* 60 * distance
paceMinutes(a) == (1000 * a.moving_time) \div (60 * a.distance)

\* index.ts:102-103  Math.round(pacePerKmSec % 60): the remainder is
\* ((1000 * moving_time) mod (60 * distance)) / distance, and Math.round
\* rounds a half up
paceSeconds(a) ==
  LET rem == (1000 * a.moving_time) % (60 * a.distance)
  IN (2 * rem + a.distance) \div (2 * a.distance)

\* index.ts:100-107
pacePerKm(a) ==
  IF a.distance > 0
  THEN toString(paceMinutes(a)) \o <<":">> \o padStart2(toString(paceSeconds(a)))
  ELSE <<"0", ":", "0", "0">>

\* the activities of the model: distances in metres, moving times in seconds
RawActivities ==
  [distance : {0, 500, 1000, 2000, 5000, 10000},
   moving_time : {0, 1, 59, 60, 299, 300, 359, 360, 719, 720, 1500, 3599, 3600}]

InitPace ==
  /\ ServerIdle /\ DateIdle /\ WeeklyIdle /\ WeatherIdle /\ PolylineIdle
  /\ rawActivity \in RawActivities
  /\ mapped = Null

\* activities.map(...), index.ts:98-122
MapActivity ==
  /\ IsNull(mapped)
  /\ mapped' = Some([distanceMeters |-> rawActivity.distance,
                     movingTimeSec |-> rawActivity.moving_time,
                     pacePerKm |-> pacePerKm(rawActivity)])
  /\ UNCHANGED <<serverVars, dateVars, weeklyVars, weatherVars, polyVars, rawActivity>>

NextPace == MapActivity

SpecPace == InitPace /\ [][NextPace]_vars

----------------------------------------------------------------------------
(* Properties of getStartOfWeek, checked under SpecStartOfWeek *)

\* the local calendar day (days since 1970-01-01) of an instant
LocalDayOf(t) == (t + (IF t < tz.switch THEN tz.before ELSE tz.after)) \div 86400000
\* the local time of day of an instant, ms since local midnight
LocalTimeOfDay(t) == (t + (IF t < tz.switch THEN tz.before ELSE tz.after)) % 86400000
\* the local weekday of an instant, 0 = Sunday
WeekdayOf(t) == (LocalDayOf(t) + 4) % 7
\* the local UTC offset in force at an instant
OffsetAt(t) == IF t < tz.switch THEN tz.before ELSE tz.after

\* weekStart is on the Monday (weekday + 6) mod 7 local days before the
\* local date of now
OnMonday(ws, n) ==
  /\ WeekdayOf(ws) = 1
  /\ LocalDayOf(ws) = LocalDayOf(n) - ((WeekdayOf(n) + 6) % 7)

\* the clocks were set forward over the local midnight that begins local
\* day d, so that this midnight is no reading of the local clock
MidnightSkipped(d) ==
  /\ tz.after > tz.before
  /\ tz.switch + tz.before <= d * 86400000
  /\ d * 86400000 < tz.switch + tz.after

----------------------------------------------------------------------------
(* Properties of getWeeklySummary, checked under SpecWeekly *)

\* whole-day offset of activity k from the week start
C8_Offset(k) == (activities[k].start_date - Val(weekStart)) \div 86400000

\* activity k counts: a Run whose offset lies in 0 .. 6
C8_Counts(k) ==
  activities[k].type = "Run" /\ C8_Offset(k) >= 0 /\ C8_Offset(k) <= 6

\* sum of field f over the activities of index <= n that count and, when
\* d >= 0, have offset d
RECURSIVE C8_Sum(_, _, _)
C8_Sum(n, d, f) ==
  IF n = 0 THEN 0
  ELSE C8_Sum(n - 1, d, f)
       + (IF C8_Counts(n) /\ (d < 0 \/ C8_Offset(n) = d) THEN activities[n][f] ELSE 0)

----------------------------------------------------------------------------
(* Properties of getWeather, checked under SpecWeather *)

\* the distinct UTC dates of the samples
C10_Dates == {list[i].dt \div 86400 : i \in 1 .. Len(list)}

\* the temperatures of the samples of a date
C10_Temps(d) == {list[i].temp : i \in {j \in 1 .. Len(list) : list[j].dt \div 86400 = d}}

\* C10: for a non-empty sample list getWeather emits at most 7 entries, of
\* strictly ascending dates, which are the earliest (up to 7) distinct UTC
\* dates of the samples; each entry's highC is the maximum and lowC the
\* minimum of its date's sample temperatures, so highC >= lowC.
C10_SevenAscendingDays ==
  (weatherDone /\ Len(list) > 0) =>
    /\ ~IsNull(days)
    /\ LET r == Val(days) IN
       /\ Len(r) <= 7
       /\ Len(r) >= 1
       /\ \A i \in 1 .. (Len(r) - 1) : r[i].date < r[i + 1].date
       /\ {r[i].date : i \in 1 .. Len(r)}
            = {d \in C10_Dates : Cardinality({e \in C10_Dates : e < d}) < 7}
       /\ \A i \in 1 .. Len(r) :
            /\ r[i].highC \in C10_Temps(r[i].date)
            /\ r[i].lowC \in C10_Temps(r[i].date)
            /\ \A t \in C10_Temps(r[i].date) : r[i].lowC <= t /\ t <= r[i].highC
            /\ r[i].highC >= r[i].lowC

\* more than 7 dates, received out of order, one of them with two
\* temperatures: 7 entries come out
C10_Witness ==
  /\ weatherDone /\ ~IsNull(days)
  /\ Cardinality(C10_Dates) > 7
  /\ \E i \in 1 .. (Len(list) - 1) : list[i].dt > list[i + 1].dt
  /\ Len(Val(days)) = 7
  /\ \E i \in 1 .. 7 : Val(days)[i].highC > Val(days)[i].lowC

----------------------------------------------------------------------------
(* Properties of the dominant condition and icon, checked under SpecDominant *)

\* the values of field f ("main" or "icon") that the samples of date d carry,
\* in sample order
RECURSIVE C11_Labels(_, _, _)
C11_Labels(d, f, n) ==
  IF n = 0 THEN <<>>
  ELSE LET rest == C11_Labels(d, f, n - 1)
       IN IF list[n].dt \div 86400 = d /\ list[n][f] # ""
          THEN Append(rest, list[n][f]) ELSE rest

\* v occurs most often in arr and, among the values of the highest count,
\* occurs first
C11_Dominant(arr, v) ==
  LET count(x) == Cardinality({i \in 1 .. Len(arr) : arr[i] = x})
      first(x) == CHOOSE i \in 1 .. Len(arr) :
                    arr[i] = x /\ \A j \in 1 .. (i - 1) : arr[j] # x
  IN /\ \E i \in 1 .. Len(arr) : arr[i] = v
     /\ \A i \in 1 .. Len(arr) :
          \/ count(v) > count(arr[i])
          \/ count(v) = count(arr[i]) /\ first(v) <= first(arr[i])

\* C11: for every emitted WeatherDay, condition is the label occurring most
\* often among its date's samples, the earliest first occurrence winning a
\* tie, and icon is chosen by the same rule from the icon codes alone.
C11_DominantByFirstOccurrence ==
  (weatherDone /\ ~IsNull(days)) =>
    \A i \in 1 .. Len(Val(days)) :
      LET day == Val(days)[i]
          conditions == C11_Labels(day.date, "main", Len(list))
          icons == C11_Labels(day.date, "icon", Len(list))
      IN /\ conditions # <<>> => C11_Dominant(conditions, day.condition)
         /\ icons # <<>> => C11_Dominant(icons, day.icon)

----------------------------------------------------------------------------
(* Properties of the weather section of the dashboard, checked under Spec *)

\* request r has started its data calls
C12_FannedOut(r) == pc[r] \in {"fanout", "done"} /\ task[r]["recent"] # "none"

\* C12: getWeather resolves with null, and neither rejects nor gives an
\* empty array, when the weather configuration is missing, and then no
\* request goes to the forecast endpoint, and when the forecast answer has
\* no samples; a dashboard request whose two activity fetches succeed is
\* then answered 200 with weather = null.
C12_NullWeather ==
  \A r \in Reqs :
    (route[r] = "dashboard" /\ C12_FannedOut(r)) =>
      /\ ~weatherCfg =>
           /\ task[r]["weather"] = "null"
           /\ \A f \in hFetches[r] : f.task # "weather"
           /\ IsNull(hForecast[r])
      /\ hForecast[r] = Some(<<>>) => task[r]["weather"] = "null"
      /\ (/\ pc[r] = "done"
          /\ task[r]["weather"] = "null"
          /\ task[r]["recent"] = "ok"
          /\ task[r]["weekly"] = "ok") =>
           /\ Len(responses[r]) = 1
           /\ responses[r][1].status = 200
           /\ responses[r][1].weather = "null"

\* a dashboard answered 200 with weather = null after an empty forecast
\* answer
C12_Witness ==
  \E r \in Reqs :
    /\ route[r] = "dashboard" /\ pc[r] = "done"
    /\ weatherCfg
    /\ hForecast[r] = Some(<<>>)
    /\ responses[r] = <<[status |-> 200, sections |-> {"recent", "weekly", "weather"},
                         error |-> "", weather |-> "null"]>>

\* a dashboard answered 200 with weather = null without a forecast request
C12_WitnessNoConfig ==
  \E r \in Reqs :
    /\ route[r] = "dashboard" /\ pc[r] = "done"
    /\ ~weatherCfg
    /\ Cardinality(hFetches[r]) = 2
    /\ Len(responses[r]) = 1 /\ responses[r][1].weather = "null"

----------------------------------------------------------------------------
(* Properties of decodePolyline, checked under SpecPolyline *)

\* C13: decodePolyline applied to the polyline encoding of a sequence of
\* coordinates at 1e-5 degree resolution returns the same sequence, of the
\* same length and in the same order; the empty string decodes to the
\* empty sequence.
C13_RoundTrip ==
  ~IsNull(path) =>
    /\ Len(Val(path)) = Len(points)
    /\ \A i \in 1 .. Len(points) : Val(path)[i] = points[i]
    /\ encoded = <<>> => Val(path) = <<>>

\* the published example of the format: (38.5, -120.2), (40.7, -120.95),
\* (43.252, -126.453) as _p~iF~ps|U_ulLnnqC_mqNvxq`@, decoded
C13_Witness ==
  /\ ~IsNull(path)
  /\ encoded = <<95, 112, 126, 105, 70, 126, 112, 115, 124, 85, 95, 117, 108, 76,
               110, 110, 113, 67, 95, 109, 113, 78, 118, 120, 113, 96, 64>>
  /\ Val(path) = << <<Degrees(FALSE, 38, 50000), Degrees(TRUE, 120, 20000)>>,
                    <<Degrees(FALSE, 40, 70000), Degrees(TRUE, 120, 95000)>>,
                    <<Degrees(FALSE, 43, 25200), Degrees(TRUE, 126, 45300)>> >>

----------------------------------------------------------------------------
(* Properties of overlapping requests, checked under Spec *)

\* the requests whose refresh exchange is in flight
C14_InFlight == {r \in Reqs : pc[r] = "refreshing"}

\* C14: with overlapping requests in one process the credential store is
\* single-writer: no two refresh exchanges are in flight together, no two
\* requests send the same stored refresh token, and no saveTokens
\* overwrites a pair that another request persisted after the saving
\* request loaded the store.
C14_SingleWriter ==
  /\ Cardinality(C14_InFlight) <= 1
  /\ \A r1, r2 \in C14_InFlight :
       r1 # r2 => sentRefresh[r1] # sentRefresh[r2]
  /\ \A r \in Reqs :
       lastWriter = r => writes = hLoadWrites[r] + 1

----------------------------------------------------------------------------
(* Properties of the pace string, checked under SpecPace *)

\* the decimal numeral of n, and n written with exactly two digits
RECURSIVE C15_Numeral(_)
C15_Numeral(n) ==
  LET d == <<"0", "1", "2", "3", "4", "5", "6", "7", "8", "9">>
  IN IF n < 10 THEN <<d[n + 1]>> ELSE C15_Numeral(n \div 10) \o <<d[(n % 10) + 1]>>

C15_TwoDigits(n) == C15_Numeral(n \div 10) \o C15_Numeral(n % 10)

\* C15: pacePerKm is M:SS with M = floor(p / 60) and SS = round(p mod 60)
\* in two digits with a value in 00..59, where p = movingTimeSec /
\* distanceKm, for distance > 0; and "0:00" for distance = 0.
C15_WellFormedPace ==
  ~IsNull(mapped) =>
    LET dist == rawActivity.distance
        time == rawActivity.moving_time
        pace == Val(mapped).pacePerKm
    IN IF dist = 0 THEN pace = <<"0", ":", "0", "0">>
       ELSE \E m \in 0 .. ((1000 * time) \div (60 * dist) + 1), ss \in 0 .. 59 :
              /\ pace = C15_Numeral(m) \o <<":">> \o C15_TwoDigits(ss)
              \* m = floor(p / 60)
              /\ 60 * dist * m <= 1000 * time
              /\ 1000 * time < 60 * dist * (m + 1)
              \* ss = round(p mod 60), p mod 60 = p - 60 * m
              /\ 2 * dist * ss - dist <= 2 * (1000 * time - 60 * dist * m)
              /\ 2 * (1000 * time - 60 * dist * m) < 2 * dist * ss + dist

====
